---- MODULE Spec2Model ----
(***************************************************************************)
(* Model of utility.py: migration of a SQLite database to MariaDB/MySQL.   *)
(*                                                                         *)
(* Text is modelled as a sequence of one-character strings, so that the    *)
(* substring tests, the regular expressions and the splitting of the code  *)
(* are computed character by character.                                    *)
(***************************************************************************)
EXTENDS Integers, Sequences, FiniteSets, TLC

VARIABLES
    sqlite_type,   \* argument of sqlite_type_to_mysql
    mysql_type,    \* its return value ("none" before the call)
    tpc,           \* position of the type-mapper run: "call" | "mapped" | "off"
    schema,        \* argument of parse_columns: the CREATE TABLE text
    parts,         \* parse_columns' local  parts  (result of re.split)
    col_defs,      \* parse_columns' return value: sequence of <<name, mysql type>>
    ppc,           \* position of the parser run: "call" | "parsed" | "off"
    source,        \* the SQLite database: per table its name, sql, columns, rows, indexes
    batch_size,    \* main's batch_size
    conn_sqlite,   \* "none" | "open" | "closed"
    conn_mysql,    \* "none" | "open" | "closed"
    tables,        \* main's  tables : table numbers in catalog order
    ti,            \* position of  for table in tables
    indexes,       \* main's  indexes  of the current table
    ii,            \* position of  for idx in indexes
    rows,          \* main's  rows  of the current table
    i_rows,        \* the loop variable  i  of  for i in range(0, len(rows), batch_size)
    target,        \* the MariaDB database: per table name, whether it exists, its
                   \* columns and its committed rows
    log,           \* the statements executed on the target connection, in order
    run,           \* number of the current invocation of main
    first,         \* what the first invocation of main left: the target and
                   \* whether all its statements succeeded
    pc             \* position in main, "off" outside a migration

typeVars  == <<sqlite_type, mysql_type, tpc>>
parseVars == <<schema, parts, col_defs, ppc>>
mainVars  == <<source, batch_size, conn_sqlite, conn_mysql, tables, ti, indexes, ii,
               rows, i_rows, target, log, run, first, pc>>
vars      == <<typeVars, parseVars, mainVars>>

TypeOff  == sqlite_type = <<>> /\ mysql_type = "none" /\ tpc = "off"
ParseOff == schema = <<>> /\ parts = <<>> /\ col_defs = <<>> /\ ppc = "off"
MainOff  ==
    /\ source = <<>> /\ batch_size = 1 /\ conn_sqlite = "none" /\ conn_mysql = "none"
    /\ tables = <<>> /\ ti = 1 /\ indexes = <<>> /\ ii = 1 /\ rows = <<>> /\ i_rows = 0
    /\ target = <<>> /\ log = <<>> /\ run = 1 /\ first = <<>> /\ pc = "off"

-----------------------------------------------------------------------------
(* Characters and text helpers                                             *)

LowerLetters == <<"a","b","c","d","e","f","g","h","i","j","k","l","m",
                  "n","o","p","q","r","s","t","u","v","w","x","y","z">>
UpperLetters == <<"A","B","C","D","E","F","G","H","I","J","K","L","M",
                  "N","O","P","Q","R","S","T","U","V","W","X","Y","Z">>
Digits == {"0","1","2","3","4","5","6","7","8","9"}

Range(s) == {s[i] : i \in 1..Len(s)}

\* str.upper() on one character
UpperChar(c) ==
    IF \E i \in 1..Len(LowerLetters) : LowerLetters[i] = c
    THEN UpperLetters[CHOOSE i \in 1..Len(LowerLetters) : LowerLetters[i] = c]
    ELSE c

\* str.upper()
Upper(s) == [i \in 1..Len(s) |-> UpperChar(s[i])]

\* Python's  k in t  on strings
Contains(t, k) ==
    \E i \in 1..(Len(t) - Len(k) + 1) : SubSeq(t, i, i + Len(k) - 1) = k

\* str.startswith(k)
StartsWith(t, k) == Len(t) >= Len(k) /\ SubSeq(t, 1, Len(k)) = k

-----------------------------------------------------------------------------
(* sqlite_type_to_mysql                                                    *)

kINT  == <<"I","N","T">>
kCHAR == <<"C","H","A","R">>
kCLOB == <<"C","L","O","B">>
kTEXT == <<"T","E","X","T">>
kBLOB == <<"B","L","O","B">>
kREAL == <<"R","E","A","L">>
kFLOA == <<"F","L","O","A">>
kDOUB == <<"D","O","U","B">>
kDATE == <<"D","A","T","E">>
kTIME == <<"T","I","M","E">>

\* A plausible slip: the TEXT rule tested before the INT rule.
sqlite_type_to_mysql_reordered(st) ==
    LET t == Upper(st) IN
    IF Contains(t, kCHAR) \/ Contains(t, kCLOB) \/ Contains(t, kTEXT) THEN "TEXT"
    ELSE IF Contains(t, kINT) THEN "INT"
    ELSE IF Contains(t, kBLOB) THEN "BLOB"
    ELSE IF Contains(t, kREAL) \/ Contains(t, kFLOA) \/ Contains(t, kDOUB) THEN "DOUBLE"
    ELSE IF Contains(t, kDATE) \/ Contains(t, kTIME) THEN "DATETIME"
    ELSE "TEXT"

sqlite_type_to_mysql(st) ==
    LET t == Upper(st) IN
    IF Contains(t, kINT) THEN "INT"
    ELSE IF Contains(t, kCHAR) \/ Contains(t, kCLOB) \/ Contains(t, kTEXT) THEN "TEXT"
    ELSE IF Contains(t, kBLOB) THEN "BLOB"
    ELSE IF Contains(t, kREAL) \/ Contains(t, kFLOA) \/ Contains(t, kDOUB) THEN "DOUBLE"
    ELSE IF Contains(t, kDATE) \/ Contains(t, kTIME) THEN "DATETIME"
    ELSE "TEXT"

-----------------------------------------------------------------------------
(* parse_columns                                                           *)

WS         == {" ", "\n", "\t"}
\* the double-quote character is written DQ and the backquote BQ
DQ         == "dq"
BQ         == "bq"
OpenQuote  == {BQ, DQ, "["}
CloseQuote == {BQ, DQ, "]"}
WordChars  == Range(LowerLetters) \cup Range(UpperLetters) \cup Digits \cup {"_"}

Min(S) == CHOOSE x \in S : \A y \in S : x <= y
Max(S) == CHOOSE x \in S : \A y \in S : x >= y

\* length of the longest run of characters satisfying "in S" (inS = TRUE) or
\* "not in S" (inS = FALSE) that starts at position q of s
RunLen(s, q, S, inS) ==
    Max({ n \in 0..(IF q > Len(s) THEN 0 ELSE Len(s) - q + 1) :
            \A k \in q..(q + n - 1) : (s[k] \in S) = inS })

\* re.search for an open parenthesis, any text, a close parenthesis (re.S):
\* it matches when some open parenthesis has a close parenthesis after it
HasColumnGroup(sch) ==
    \E i, j \in 1..Len(sch) : i < j /\ sch[i] = "(" /\ sch[j] = ")"

\* group(1): from the leftmost open parenthesis, the greedy any-text runs to
\* the last close parenthesis
ColumnGroup(sch) ==
    LET i == Min({ k \in 1..Len(sch) : sch[k] = "(" })
        j == Max({ k \in 1..Len(sch) : sch[k] = ")" })
    IN SubSeq(sch, i + 1, j - 1)

\* the lookahead body (non-parenthesis characters, then a close parenthesis)
\* matches at position q of text
ClosesNext(text, q) ==
    \E j \in q..Len(text) :
        /\ text[j] = ")"
        /\ \A k \in q..(j - 1) : text[k] \notin {"(", ")"}

\* the numbers k of whitespace characters after the comma at p with which
\* the separator pattern (comma, whitespace, negative lookahead) matches at p
SepTails(text, p) ==
    { k \in 0..RunLen(text, p + 1, WS, TRUE) : ~ClosesNext(text, p + 1 + k) }

SeparatorsAt(text) ==
    { p \in 1..Len(text) : text[p] = "," /\ SepTails(text, p) # {} }

RECURSIVE re_split(_)
\* re.split on the separator pattern: leftmost match first, whitespace greedy
re_split(text) ==
    IF SeparatorsAt(text) = {} THEN << text >>
    ELSE LET p == Min(SeparatorsAt(text))
             k == IF SepTails(text, p) = {} THEN 0 ELSE Max(SepTails(text, p))
         IN << SubSeq(text, 1, p - 1) >>
              \o re_split(SubSeq(text, p + 1 + k, Len(text)))

\* str.strip()
Strip(s) ==
    LET a == RunLen(s, 1, WS, TRUE)
        r == SubSeq(s, a + 1, Len(s))
        b == Max({ n \in 0..Len(r) : \A k \in (Len(r) - n + 1)..Len(r) : r[k] \in WS })
    IN SubSeq(r, 1, Len(r) - b)

kCONSTRAINT == <<"C","O","N","S","T","R","A","I","N","T">>
kPRIMARYKEY == <<"P","R","I","M","A","R","Y"," ","K","E","Y">>
kUNIQUE     == <<"U","N","I","Q","U","E">>
kFOREIGNKEY == <<"F","O","R","E","I","G","N"," ","K","E","Y">>
SkipPrefixes == {kCONSTRAINT, kPRIMARYKEY, kUNIQUE, kFOREIGNKEY}

\* not line or line.upper().startswith(the four prefixes)
IsSkipped(line) ==
    \/ line = <<>>
    \/ \E k \in SkipPrefixes : StartsWith(Upper(line), k)

\* re.match: optional opening quote, a word, optional closing quote,
\* whitespace, a run of characters that are neither whitespace nor comma;
\* every quantifier greedy
ColMatch(line) ==
    LET i0 == IF line # <<>> /\ line[1] \in OpenQuote THEN 2 ELSE 1
        n  == RunLen(line, i0, WordChars, TRUE)
        i1 == i0 + n
        i2 == IF i1 <= Len(line) /\ line[i1] \in CloseQuote THEN i1 + 1 ELSE i1
        w  == RunLen(line, i2, WS, TRUE)
        i3 == i2 + w
        m  == RunLen(line, i3, WS \cup {","}, FALSE)
    IN IF n >= 1 /\ w >= 1 /\ m >= 1
       THEN [ok |-> TRUE, col_name |-> SubSeq(line, i0, i1 - 1),
             col_type |-> SubSeq(line, i3, i3 + m - 1), type_at |-> i3]
       ELSE [ok |-> FALSE, col_name |-> <<>>, col_type |-> <<>>, type_at |-> 0]

RECURSIVE ColDefsOf(_)
\* the loop over parts
ColDefsOf(ps) ==
    IF ps = <<>> THEN <<>>
    ELSE LET line == Strip(Head(ps))
             m    == ColMatch(line)
         IN (IF ~IsSkipped(line) /\ m.ok
             THEN << <<m.col_name, sqlite_type_to_mysql(m.col_type)>> >>
             ELSE <<>>)
            \o ColDefsOf(Tail(ps))

\* the local  parts ; the empty sequence when re.search finds no group
PartsOf(sch) ==
    IF HasColumnGroup(sch) THEN re_split(ColumnGroup(sch)) ELSE <<>>

parse_columns(sch) == ColDefsOf(PartsOf(sch))

-----------------------------------------------------------------------------
(* Specification SpecType: sqlite_type_to_mysql applied to bounded inputs  *)

\* Number of fragments a type token is put together from.
MaxFrags == 2

TypeFrags ==
    { kINT, kCHAR, kCLOB, kTEXT, kBLOB, kREAL, kFLOA, kDOUB, kDATE, kTIME,
      <<"i","n","t">>, <<"T","e","x","t">>, <<"b","l","o","b">>,
      <<"d","o","u","b","l","e">>, <<"S","T","A","M","P">>,
      <<"P","O">>, <<"E","G","E","R">>, <<"V","A","R">>,
      <<"(","2","5","5",")">>, <<"N","U","M">>, <<"D","A">>, <<"T","E">> }

RECURSIVE Concats(_)
\* every text made of at most n fragments, the empty text included
Concats(n) ==
    IF n = 0 THEN { <<>> }
    ELSE LET prev == Concats(n - 1) IN
         prev \cup { p \o f : p \in prev, f \in TypeFrags }

TypeInputs == Concats(MaxFrags)

InitType ==
    /\ sqlite_type \in TypeInputs
    /\ mysql_type = "none"
    /\ tpc = "call"
    /\ ParseOff
    /\ MainOff

MapType ==
    /\ tpc = "call"
    /\ mysql_type' = sqlite_type_to_mysql(sqlite_type)
    /\ tpc' = "mapped"
    /\ UNCHANGED <<sqlite_type, parseVars, mainVars>>

NextType == MapType

SpecType == InitType /\ [][NextType]_vars

-----------------------------------------------------------------------------
(* The ordered rule list of the type mapper, stated independently of the   *)
(* code's if/elif chain.                                                   *)

TargetTypes == {"INT", "TEXT", "BLOB", "DOUBLE", "DATETIME"}

RuleList ==
    << [keys |-> {kINT},                 out |-> "INT"],
       [keys |-> {kCHAR, kCLOB, kTEXT},  out |-> "TEXT"],
       [keys |-> {kBLOB},                out |-> "BLOB"],
       [keys |-> {kREAL, kFLOA, kDOUB},  out |-> "DOUBLE"],
       [keys |-> {kDATE, kTIME},         out |-> "DATETIME"] >>

\* k occurs in t, letters compared without regard to case
HasCI(t, k) ==
    \E i \in 1..(Len(t) - Len(k) + 1) :
        \A j \in 1..Len(k) : UpperChar(t[i + j - 1]) = UpperChar(k[j])

RuleHits(t, r) == \E k \in RuleList[r].keys : HasCI(t, k)

FirstMatch(t) ==
    IF \E r \in 1..Len(RuleList) : RuleHits(t, r)
    THEN LET r == CHOOSE x \in 1..Len(RuleList) :
                      /\ RuleHits(t, x)
                      /\ \A y \in 1..(x - 1) : ~RuleHits(t, y)
         IN RuleList[r].out
    ELSE "TEXT"

\* C7: sqlite_type_to_mysql is total and deterministic: for every input text,
\* the empty one included, the result is one of INT, TEXT, BLOB, DOUBLE,
\* DATETIME, and it is the output of the first rule of the ordered list whose
\* keyword occurs (case-insensitively) in the token, TEXT when no rule matches.
\* The examples INTEGER, VARCHAR, BLOB, REAL, TIMESTAMP and "" map as listed.
C7_TypeMapFirstMatch ==
    tpc = "mapped" =>
        /\ mysql_type \in TargetTypes
        /\ mysql_type = FirstMatch(sqlite_type)
        /\ (sqlite_type = kINT \o <<"E","G","E","R">> => mysql_type = "INT")
        /\ (sqlite_type = <<"V","A","R">> \o kCHAR => mysql_type = "TEXT")
        /\ (sqlite_type = kBLOB => mysql_type = "BLOB")
        /\ (sqlite_type = kREAL => mysql_type = "DOUBLE")
        /\ (sqlite_type = kTIME \o <<"S","T","A","M","P">> => mysql_type = "DATETIME")
        /\ (sqlite_type = <<>> => mysql_type = "TEXT")

\* A mapped token that matches rule 1 (INT) and rule 5 (TIME) and got INT.
C7_Witness ==
    /\ tpc = "mapped"
    /\ HasCI(sqlite_type, kINT)
    /\ HasCI(sqlite_type, kTIME)
    /\ mysql_type = "INT"

-----------------------------------------------------------------------------
(* Specification SpecParse: parse_columns applied to bounded inputs        *)

\* Number of clauses in a generated column list.
MaxClauses == 3

cA          == <<"a"," ","I","N","T">>
cB          == <<"b"," ","D","E","C","I","M","A","L","(","1","0",",","2",")">>
cC          == <<"c"," ","T","E","X","T">>
cPK         == <<"P","R","I","M","A","R","Y"," ","K","E","Y","(","a",")">>
cUid        == <<"u","n","i","q","u","e","_","i","d"," ","I","N","T">>
cQuoted     == <<BQ,"d",BQ," ","R","E","A","L">>
cBare       == <<"e">>
cNested     == <<"g"," ","I","N","T"," ","C","H","E","C","K","(","f","(","g",",","h","(","2",")",")",")">>
cUnique     == <<"U","N","I","Q","U","E","(","a",")">>
cConstraint == <<"c","o","n","s","t","r","a","i","n","t"," ","k"," ","C","H","E","C","K","(","a",")">>
cFK         == <<"F","o","r","e","i","g","n"," ","K","e","y","(","a",")"," ","R","E","F","E","R","E","N","C","E","S"," ","u","(","a",")">>

ClausePool ==
    { cA, cB, cC, cPK, cUid, cQuoted, cBare, cNested, cUnique, cConstraint, cFK }

Seps == { <<",">>, <<",", " ">> }

CreatePrefix == <<"C","R","E","A","T","E"," ","T","A","B","L","E"," ","t"," ">>

RECURSIVE ClauseLists(_)
\* the texts of 1..n clauses of the pool joined by the separators
ClauseLists(n) ==
    IF n = 1 THEN ClausePool
    ELSE LET prev == ClauseLists(n - 1) IN
         prev \cup { b \o sep \o c : b \in prev, sep \in Seps, c \in ClausePool }

ParseInputs ==
    { CreatePrefix \o <<"(">> \o body \o <<")">> : body \in ClauseLists(MaxClauses) }
    \cup { CreatePrefix, CreatePrefix \o <<"(">>, <<")", "(">> }

InitParse ==
    /\ schema \in ParseInputs
    /\ parts = <<>>
    /\ col_defs = <<>>
    /\ ppc = "call"
    /\ TypeOff
    /\ MainOff

ParseColumns ==
    /\ ppc = "call"
    /\ parts' = PartsOf(schema)
    /\ col_defs' = parse_columns(schema)
    /\ ppc' = "parsed"
    /\ UNCHANGED <<schema, typeVars, mainVars>>

NextParse == ParseColumns

SpecParse == InitParse /\ [][NextParse]_vars

-----------------------------------------------------------------------------
(* Clause structure of a column list, stated independently of the regular  *)
(* expressions of parse_columns.                                           *)

\* nesting depth of position p: open minus close parentheses before p
Depth(text, p) ==
    Cardinality({ k \in 1..(p - 1) : text[k] = "(" })
    - Cardinality({ k \in 1..(p - 1) : text[k] = ")" })

Balanced(text) ==
    /\ \A p \in 1..(Len(text) + 1) : Depth(text, p) >= 0
    /\ Depth(text, Len(text) + 1) = 0

TopLevelCommas(text) ==
    { p \in 1..Len(text) : text[p] = "," /\ Depth(text, p) = 0 }

RECURSIVE CutAt(_, _, _)
\* the pieces of text between the positions of cuts, from position from on
CutAt(text, cuts, from) ==
    IF { p \in cuts : p >= from } = {}
    THEN << SubSeq(text, from, Len(text)) >>
    ELSE LET p == Min({ q \in cuts : q >= from })
         IN << SubSeq(text, from, p - 1) >> \o CutAt(text, cuts, p + 1)

StripAll(ps) == [i \in 1..Len(ps) |-> Strip(ps[i])]

\* the clauses of a column list: its text cut at the commas of depth 0
Clauses(text) == StripAll(CutAt(text, TopLevelCommas(text), 1))

\* the clauses that parse_columns turns into a column
IsColumnClause(line) == ~IsSkipped(line) /\ ColMatch(line).ok

\* the text of the clause from its type token up to the next whitespace at
\* nesting depth 0
WholeTypeToken(line) ==
    LET rest == SubSeq(line, ColMatch(line).type_at, Len(line))
        ends == { e \in 1..Len(rest) :
                    e = Len(rest) \/ (rest[e + 1] \in WS /\ Depth(rest, e + 1) = 0) }
    IN SubSeq(rest, 1, Min(ends))

\* C8 (as claimed): for a balanced column list, parts holds exactly the
\* clauses between the commas of nesting depth 0, and the type token of every
\* column clause is the whole token, parenthesized argument list included,
\* not a part of it cut at an internal comma.
C8_SplitsAtTopLevelCommasOnly ==
    (ppc = "parsed" /\ HasColumnGroup(schema) /\ Balanced(ColumnGroup(schema))) =>
        /\ StripAll(parts) = Clauses(ColumnGroup(schema))
        /\ \A i \in 1..Len(parts) :
               IsColumnClause(Strip(parts[i])) =>
                   ColMatch(Strip(parts[i])).col_type = WholeTypeToken(Strip(parts[i]))

\* the leading keyword of a clause is one of the four constraint keywords:
\* its first word, or its first two words, compared without regard to case
FirstWord(line) == SubSeq(line, 1, RunLen(line, 1, WordChars, TRUE))

HasConstraintKeyword(line) ==
    LET w1   == Upper(FirstWord(line))
        rest == Strip(SubSeq(line, Len(w1) + 1, Len(line)))
        gap  == Len(w1) < Len(line) /\ line[Len(w1) + 1] \in WS
        w2   == Upper(FirstWord(rest))
    IN \/ w1 = kCONSTRAINT
       \/ w1 = kUNIQUE
       \/ (w1 = <<"P","R","I","M","A","R","Y">> /\ gap /\ w2 = <<"K","E","Y">>)
       \/ (w1 = <<"F","O","R","E","I","G","N">> /\ gap /\ w2 = <<"K","E","Y">>)

RECURSIVE ExpectedNames(_)
\* in clause order, the name of every clause of the form identifier, type
\* token whose leading keyword is none of the four
ExpectedNames(ps) ==
    IF ps = <<>> THEN <<>>
    ELSE LET line == Strip(Head(ps)) IN
         (IF line # <<>> /\ ColMatch(line).ok /\ ~HasConstraintKeyword(line)
          THEN << ColMatch(line).col_name >> ELSE <<>>)
         \o ExpectedNames(Tail(ps))

\* C9 (as claimed): parse_columns returns, in clause order, one column for
\* every clause of the form identifier, type token, and discards exactly the
\* clauses whose leading keyword is CONSTRAINT, PRIMARY KEY, UNIQUE or FOREIGN
\* KEY; a column whose name merely begins with those letters is kept.
C9_DiscardsExactlyConstraintClauses ==
    ppc = "parsed" =>
        [i \in 1..Len(col_defs) |-> col_defs[i][1]] = ExpectedNames(parts)

-----------------------------------------------------------------------------
(* main: the migration run                                                 *)
(*                                                                         *)
(* The two databases are modelled by what their statements do.  A target   *)
(* statement either takes effect or raises; which of the two is chosen     *)
(* freely, except that MariaDB always rejects a CREATE TABLE with an empty *)
(* column list and an INSERT that names a column the table does not have.  *)
(* Reads of the SQLite file and commits are taken to succeed.              *)

\* Largest number of rows of a source table.
MaxRows == 3
\* Largest batch size.
MaxBatch == 2

TableNames == <<"t1", "t2">>

nA   == <<"a">>
nB   == <<"b">>
nC   == <<"c">>
nE   == <<"e">>
nUid == <<"u","n","i","q","u","e","_","i","d">>

Ddl(body) == CreatePrefix \o <<"(">> \o body \o <<")">>

\* Table definitions of the source: the sql text of sqlite_master, the
\* column names SQLite itself reports for the table (cursor.description) and
\* the number of its indexes that carry sql text.
TableDefs ==
    { [sql |-> Ddl(cA \o <<",", " ">> \o cB \o <<",", " ">> \o cC),
       cols |-> <<nA, nB, nC>>, nidx |-> 2],
      [sql |-> Ddl(cUid \o <<",", " ">> \o cC), cols |-> <<nUid, nC>>, nidx |-> 1],
      [sql |-> Ddl(cA), cols |-> <<nA>>, nidx |-> 0],
      [sql |-> Ddl(cBare), cols |-> <<nE>>, nidx |-> 0] }

Sources ==
    { [k \in 1..Len(TableNames) |->
          [name |-> TableNames[k], sql |-> d[k].sql, cols |-> d[k].cols,
           nrows |-> n[k], nidx |-> d[k].nidx]] :
      d \in [1..Len(TableNames) -> TableDefs],
      n \in [1..Len(TableNames) -> 0..MaxRows] }

NoTable == [exists |-> FALSE, cols |-> <<>>, rows |-> <<>>]

EmptyTarget == [nm \in Range(TableNames) |-> NoTable]

InitMain ==
    /\ source \in Sources
    /\ batch_size \in 1..MaxBatch
    /\ conn_sqlite = "none"
    /\ conn_mysql = "none"
    /\ tables = <<>>
    /\ ti = 1
    /\ indexes = <<>>
    /\ ii = 1
    /\ rows = <<>>
    /\ i_rows = 0
    /\ target = EmptyTarget
    /\ log = <<>>
    /\ run = 1
    /\ first = <<>>
    /\ pc = "connect"
    /\ TypeOff
    /\ ParseOff

Stmt(op, tbl, arg, n, ok) == [op |-> op, table |-> tbl, arg |-> arg, n |-> n, ok |-> ok]

table == source[tables[ti]]

\* lines 59-69: sqlite3.connect, then mysql.connector.connect, which raises
\* when the server refuses the connection
Connect ==
    /\ pc = "connect"
    /\ conn_sqlite' = "open"
    /\ \E ok \in BOOLEAN :
        /\ conn_mysql' = IF ok THEN "open" ELSE "none"
        /\ pc' = IF ok THEN "tables" ELSE "raised"
    /\ UNCHANGED <<source, batch_size, tables, ti, indexes, ii, rows, i_rows, target,
                   log, run, first, typeVars, parseVars>>

\* get_tables (lines 40-42, 71): the table names of sqlite_master
get_tables == [k \in 1..Len(source) |-> k]

GetTables ==
    /\ pc = "tables"
    /\ tables' = get_tables
    /\ ti' = 1
    /\ pc' = "for"
    /\ UNCHANGED <<source, batch_size, conn_sqlite, conn_mysql, indexes, ii, rows,
                   i_rows, target, log, run, first, typeVars, parseVars>>

\* lines 74-78: the head of  for table in tables  and the test of the row
ForTable ==
    /\ pc = "for"
    /\ IF ti > Len(tables) THEN pc' = "close" /\ ti' = ti
       ELSE IF table.sql # <<>> THEN pc' = "drop" /\ ti' = ti
       ELSE pc' = "for" /\ ti' = ti + 1
    /\ UNCHANGED <<source, batch_size, conn_sqlite, conn_mysql, tables, indexes, ii,
                   rows, i_rows, target, log, run, first, typeVars, parseVars>>

\* lines 85-87 stand in no try block: a rejected statement leaves main
AfterDDL(ok, nxt) == IF ok THEN nxt ELSE "raised"

\* A plausible slip: the DROP statement left out, the table kept.
Dropped_kept(old) == old

\* the effect of DROP TABLE IF EXISTS on the table
Dropped(old) == NoTable

\* line 85: DROP TABLE IF EXISTS
DropTable ==
    /\ pc = "drop"
    /\ \E ok \in BOOLEAN :
        /\ log' = Append(log, Stmt("drop", table.name, 0, 0, ok))
        /\ target' = IF ok THEN [target EXCEPT ![table.name] = Dropped(@)] ELSE target
        /\ pc' = AfterDDL(ok, "create")
    /\ UNCHANGED <<source, batch_size, conn_sqlite, conn_mysql, tables, ti, indexes, ii,
                   rows, i_rows, run, first, typeVars, parseVars>>

\* the target accepts CREATE TABLE only with a column list that is not empty
CreateAccepted(columns) == columns # <<>>

\* CREATE TABLE IF NOT EXISTS: an existing table is left as it is
Created(old, columns) ==
    IF old.exists THEN old ELSE [exists |-> TRUE, cols |-> columns, rows |-> <<>>]

\* lines 79-87: parse_columns, CREATE TABLE IF NOT EXISTS, commit
CreateTable ==
    /\ pc = "create"
    /\ LET columns == parse_columns(table.sql) IN
       \E ok \in BOOLEAN :
        /\ ok => CreateAccepted(columns)
        /\ log' = IF ok
                  THEN log \o << Stmt("create", table.name, Len(columns), 0, TRUE),
                                 Stmt("commit", table.name, 0, 0, TRUE) >>
                  ELSE Append(log, Stmt("create", table.name, Len(columns), 0, FALSE))
        /\ target' = IF ok
                     THEN [target EXCEPT ![table.name] = Created(@, columns)]
                     ELSE target
        /\ pc' = AfterDDL(ok, "indexes")
    /\ UNCHANGED <<source, batch_size, conn_sqlite, conn_mysql, tables, ti, indexes, ii,
                   rows, i_rows, run, first, typeVars, parseVars>>

\* get_indexes (lines 44-55, 90): the indexes of the table that carry sql text
get_indexes(t) == [k \in 1..t.nidx |-> k]

GetIndexes ==
    /\ pc = "indexes"
    /\ indexes' = get_indexes(table)
    /\ ii' = 1
    /\ pc' = IF get_indexes(table) = <<>> THEN "select" ELSE "index"
    /\ UNCHANGED <<source, batch_size, conn_sqlite, conn_mysql, tables, ti, rows,
                   i_rows, target, log, run, first, typeVars, parseVars>>

\* A plausible slip: the index statement executed outside the try block.
AfterIndex_raises(ok, more) ==
    IF ~ok THEN "raised" ELSE IF more THEN "index" ELSE "select"

\* lines 98-101: the exception of a rejected index statement is caught and
\* printed; the loop over the indexes goes on
AfterIndex(ok, more) == IF more THEN "index" ELSE "select"

\* lines 91-101: one pass of  for idx in indexes
CreateIndex ==
    /\ pc = "index"
    /\ \E ok \in BOOLEAN :
        /\ log' = Append(log, Stmt("index", table.name, indexes[ii], 0, ok))
        /\ pc' = AfterIndex(ok, ii < Len(indexes))
    /\ ii' = ii + 1
    /\ UNCHANGED <<source, batch_size, conn_sqlite, conn_mysql, tables, ti, indexes,
                   rows, i_rows, target, run, first, typeVars, parseVars>>

\* lines 104-108, 120-121: SELECT * and fetchall; the batch loop is entered
\* only when there are rows
SelectRows ==
    /\ pc = "select"
    /\ rows' = [k \in 1..table.nrows |-> k]
    /\ i_rows' = 0
    /\ IF table.nrows > 0 THEN pc' = "batch" /\ ti' = ti
       ELSE pc' = "for" /\ ti' = ti + 1
    /\ UNCHANGED <<source, batch_size, conn_sqlite, conn_mysql, tables, indexes, ii,
                   target, log, run, first, typeVars, parseVars>>

\* A plausible slip: the slice one row short.
Batch_short(rws, start, size) ==
    SubSeq(rws, start + 1, Min({start + size - 1, Len(rws)}))

\* line 110: rows[i:i+batch_size]
Batch(rws, start, size) == SubSeq(rws, start + 1, Min({start + size, Len(rws)}))

\* the target accepts the INSERT only into an existing table that has every
\* column the statement names
InsertAccepted(t) ==
    /\ target[t.name].exists
    /\ Range(t.cols) \subseteq { target[t.name].cols[k][1] : k \in 1..Len(target[t.name].cols) }

\* A plausible slip: the loop left at the first failing batch.
AfterBatch_break(ok, more) == IF ok /\ more THEN "batch" ELSE "for"

\* lines 114-119: the exception of a failed batch is caught and printed; the
\* loop of range(0, len(rows), batch_size) goes on
AfterBatch(ok, more) == IF more THEN "batch" ELSE "for"

\* A plausible slip: the commit after the insert left out.
ExecuteInsert_no_commit(nm, start, n) == << Stmt("insert", nm, start, n, TRUE) >>

\* lines 115-116: cursor_mysql.execute(insert_sql, values), conn_mysql.commit()
ExecuteInsert(nm, start, n) ==
    << Stmt("insert", nm, start, n, TRUE), Stmt("commit", nm, 0, 0, TRUE) >>

\* lines 109-119: one pass of the batch loop: the multi-row INSERT and, when
\* it succeeded, the commit
InsertBatch ==
    /\ pc = "batch"
    /\ LET batch == Batch(rows, i_rows, batch_size) IN
       \E ok \in BOOLEAN :
        /\ ok => InsertAccepted(table)
        /\ log' = IF ok
                  THEN log \o ExecuteInsert(table.name, i_rows, Len(batch))
                  ELSE Append(log, Stmt("insert", table.name, i_rows, Len(batch), FALSE))
        /\ target' = IF ok
                     THEN [target EXCEPT ![table.name].rows = @ \o batch]
                     ELSE target
        /\ pc' = AfterBatch(ok, i_rows + batch_size < Len(rows))
    /\ i_rows' = i_rows + batch_size
    /\ ti' = IF pc' = "for" THEN ti + 1 ELSE ti
    /\ UNCHANGED <<source, batch_size, conn_sqlite, conn_mysql, tables, indexes, ii,
                   rows, run, first, typeVars, parseVars>>

\* lines 123-127: both cursors and both connections closed
Close ==
    /\ pc = "close"
    /\ conn_mysql' = "closed"
    /\ conn_sqlite' = "closed"
    /\ pc' = "done"
    /\ UNCHANGED <<source, batch_size, tables, ti, indexes, ii, rows, i_rows, target,
                   log, run, first, typeVars, parseVars>>

Next ==
    \/ Connect
    \/ GetTables
    \/ ForTable
    \/ DropTable
    \/ CreateTable
    \/ GetIndexes
    \/ CreateIndex
    \/ SelectRows
    \/ InsertBatch
    \/ Close

Spec == InitMain /\ [][Next]_vars

-----------------------------------------------------------------------------
(* Specification SpecTwice: main invoked a second time on the same source  *)
(* and the target the first invocation left                                *)

AllOk(lg) == \A p \in 1..Len(lg) : lg[p].ok

\* lines 129-148: the script started again with the same arguments after a
\* run that reported completion
Rerun ==
    /\ pc = "done"
    /\ run = 1
    /\ run' = 2
    /\ first' = [target |-> target, ok |-> AllOk(log)]
    /\ conn_sqlite' = "none"
    /\ conn_mysql' = "none"
    /\ tables' = <<>>
    /\ ti' = 1
    /\ indexes' = <<>>
    /\ ii' = 1
    /\ rows' = <<>>
    /\ i_rows' = 0
    /\ log' = <<>>
    /\ pc' = "connect"
    /\ UNCHANGED <<source, batch_size, target, typeVars, parseVars>>

NextTwice == Next \/ Rerun

\* the sources of one table
SingleSources == { SubSeq(src, 1, 1) : src \in Sources }

InitTwice ==
    /\ source \in SingleSources
    /\ batch_size \in 1..MaxBatch
    /\ conn_sqlite = "none"
    /\ conn_mysql = "none"
    /\ tables = <<>>
    /\ ti = 1
    /\ indexes = <<>>
    /\ ii = 1
    /\ rows = <<>>
    /\ i_rows = 0
    /\ target = EmptyTarget
    /\ log = <<>>
    /\ run = 1
    /\ first = <<>>
    /\ pc = "connect"
    /\ TypeOff
    /\ ParseOff

SpecTwice == InitTwice /\ [][NextTwice]_vars

-----------------------------------------------------------------------------
(* Properties of the migration run                                         *)

\* the statements of kind op executed for table nm, in order
LogOf(nm, op) == SelectSeq(log, LAMBDA e : e.table = nm /\ e.op = op)

CeilDiv(n, b) == (n + b - 1) \div b

\* table number k has been processed to the end of its data transfer
Transferred(k) == k \in 1..Len(tables) /\ k < ti

\* the batch loop of table number k has been entered
InTransfer(k) == Transferred(k) \/ (k \in 1..Len(tables) /\ k = ti /\ pc = "batch")

\* C1: for a table of N >= 0 rows and batch size B >= 1 the data transfer
\* issues exactly ceil(N / B) insert statements (none when N = 0), every one
\* but the last carries B rows, and the last carries N mod B rows, or B rows
\* when N is a positive multiple of B.
C1_BatchCountAndSizes ==
    \A k \in 1..Len(source) :
        Transferred(k) =>
            LET ins == LogOf(source[k].name, "insert")
                N   == source[k].nrows
                B   == batch_size
            IN /\ Len(ins) = CeilDiv(N, B)
               /\ \A j \in 1..(Len(ins) - 1) : ins[j].n = B
               /\ Len(ins) > 0 => ins[Len(ins)].n = (IF N % B = 0 THEN B ELSE N % B)

\* A table of 3 rows moved with batch size 2: two inserts, of 2 rows and 1 row.
C1_Witness ==
    \E k \in 1..Len(source) :
        /\ Transferred(k)
        /\ source[k].nrows = 3
        /\ batch_size = 2
        /\ Len(LogOf(source[k].name, "insert")) = 2
        /\ [j \in 1..2 |-> LogOf(source[k].name, "insert")[j].n] = <<2, 1>>

RECURSIVE RowsOfOk(_)
\* the rows of the insert statements that succeeded, in order
RowsOfOk(ins) ==
    IF ins = <<>> THEN <<>>
    ELSE (IF Head(ins).ok
          THEN [j \in 1..Head(ins).n |-> Head(ins).arg + j]
          ELSE <<>>)
         \o RowsOfOk(Tail(ins))

\* C2: whichever batches of a table fail, every batch of the table is
\* attempted exactly once (offsets 0, B, 2B, ... each once), the rows of the
\* batches committed so far stay in the target while later batches fail, the
\* target table holds exactly the rows of the succeeded batches, and a failed
\* batch never ends the run: main is only ever left by a failed connect, DROP
\* or CREATE.
C2_FailedBatchesAreSkipped ==
    /\ \A k \in 1..Len(source) :
        InTransfer(k) =>
            target[source[k].name].rows = RowsOfOk(LogOf(source[k].name, "insert"))
    /\ \A k \in 1..Len(source) :
        Transferred(k) =>
            LET ins == LogOf(source[k].name, "insert") IN
            /\ Len(ins) = CeilDiv(source[k].nrows, batch_size)
            /\ \A j \in 1..Len(ins) : ins[j].arg = (j - 1) * batch_size
    /\ (pc = "raised" /\ log # <<>>) =>
            /\ log[Len(log)].op \in {"drop", "create"}
            /\ ~log[Len(log)].ok

\* Table 1 of 3 rows, batch size 1: the batches succeed, fail, succeed; the
\* target holds rows 1 and 3 and the run has gone on to table 2.
C2_Witness ==
    /\ Len(tables) = 2
    /\ Transferred(1)
    /\ batch_size = 1
    /\ Len(LogOf(source[1].name, "insert")) = 3
    /\ [j \in 1..3 |-> LogOf(source[1].name, "insert")[j].ok] = <<TRUE, FALSE, TRUE>>
    /\ target[source[1].name].rows = <<1, 3>>
    /\ LogOf(source[2].name, "insert") # <<>>

\* C4 (as claimed): a DROP or CREATE TABLE statement that the target rejects
\* is caught: it does not end the run, which goes on with the later tables
\* to its completion report.
C4_TableFailureIsCaught ==
    (\E p \in 1..Len(log) : log[p].op \in {"drop", "create"} /\ ~log[p].ok) =>
        pc # "raised"

\* C5 (as claimed): once both connections have been opened, both are closed
\* in every state in which main has ended, by return or by exception.
C5_ConnectionsClosedOnEveryExit ==
    (pc \in {"done", "raised"} /\ conn_sqlite # "none" /\ conn_mysql # "none") =>
        (conn_sqlite = "closed" /\ conn_mysql = "closed")

\* C6: whichever index statements of a table the target rejects, every
\* index statement of the table is attempted exactly once, in order, all of
\* them before the first insert of the table; the data transfer of the table
\* then takes place with all its batches; and a rejected index statement
\* never ends the run.
C6_FailedIndexesAreSkipped ==
    /\ \A k \in 1..Len(source) :
        (Transferred(k) \/ (k \in 1..Len(tables) /\ k = ti /\ pc \in {"select", "batch"})) =>
            [j \in 1..Len(LogOf(source[k].name, "index")) |->
                LogOf(source[k].name, "index")[j].arg] = get_indexes(source[k])
    /\ \A k \in 1..Len(source) :
        Transferred(k) =>
            Len(LogOf(source[k].name, "insert")) = CeilDiv(source[k].nrows, batch_size)
    /\ \A p \in 1..Len(log) :
        (log[p].op = "index" /\ ~log[p].ok) =>
            /\ ~(pc = "raised" /\ p = Len(log))
            /\ \A q \in 1..(p - 1) : ~(log[q].op = "insert" /\ log[q].table = log[p].table)

\* A table whose index statement was rejected and whose rows were then moved.
C6_Witness ==
    \E k \in 1..Len(source) :
        /\ Transferred(k)
        /\ \E p \in 1..Len(log) :
              log[p].op = "index" /\ ~log[p].ok /\ log[p].table = source[k].name
        /\ source[k].nrows > batch_size
        /\ \E p \in 1..Len(log) :
              log[p].op = "insert" /\ log[p].ok /\ log[p].table = source[k].name

TblNo(nm) == CHOOSE k \in 1..Len(TableNames) : TableNames[k] = nm

\* the place of a statement in the order of one table
Rank(e) ==
    CASE e.op = "drop"   -> 1
      [] e.op = "create" -> 2
      [] e.op = "index"  -> 3
      [] e.op = "insert" -> 4
      [] OTHER           -> 0

\* C10: the statements sent to the target are ordered per table as DROP,
\* CREATE TABLE, the index statements, the batch inserts in source row order;
\* every successful insert is followed at once by its commit, before the next
\* insert; and no statement of a later table comes before the last statement
\* of an earlier table.
C10_StatementOrder ==
    /\ \A p, q \in 1..Len(log) :
        p < q =>
            /\ TblNo(log[p].table) <= TblNo(log[q].table)
            /\ (log[p].table = log[q].table /\ log[p].op # "commit" /\ log[q].op # "commit") =>
                   \/ Rank(log[p]) < Rank(log[q])
                   \/ /\ Rank(log[p]) = Rank(log[q])
                      /\ log[p].op \in {"index", "insert"}
                      /\ log[p].arg < log[q].arg
    /\ \A p \in 1..Len(log) :
        /\ (log[p].op \in {"create", "insert"} /\ log[p].ok) =>
               /\ p < Len(log)
               /\ log[p + 1].op = "commit"
               /\ log[p + 1].table = log[p].table
        /\ (p = 1 \/ log[p - 1].table # log[p].table) => log[p].op = "drop"

\* A finished run that created an index and moved several batches for the
\* first table and moved rows for the second.
C10_Witness ==
    /\ pc = "done"
    /\ Len(LogOf(TableNames[1], "insert")) >= 2
    /\ \E p \in 1..Len(log) : log[p].op = "insert" /\ log[p].ok /\ log[p].table = TableNames[1]
    /\ LogOf(TableNames[1], "index") # <<>>
    /\ LogOf(TableNames[2], "index") # <<>>
    /\ LogOf(TableNames[2], "insert") # <<>>

ColumnsOf(k) == parse_columns(source[k].sql)

\* C3 (as claimed): after a second run on the same source, with every
\* statement of both runs succeeding, each source row is in the target table
\* twice, so the rows differ from those the first run left, while the
\* columns of the table are the same after both runs.
C3_SecondRunAppendsRows ==
    (run = 2 /\ pc = "done" /\ first.ok /\ AllOk(log)) =>
        \A k \in 1..Len(source) :
            source[k].nrows > 0 =>
                /\ target[source[k].name].rows =
                       first.target[source[k].name].rows \o first.target[source[k].name].rows
                /\ target[source[k].name].rows # first.target[source[k].name].rows
                /\ target[source[k].name].cols = first.target[source[k].name].cols

\* C3 (amended): the second run drops and creates each table again before it
\* inserts, so after a completed second run every table holds exactly the
\* rows of the batches that succeeded in that run, whatever the first run
\* left, with the columns parse_columns gives; when every statement of both
\* runs succeeded the target after the second run equals the target after
\* the first: each source row is present once, rows and columns unchanged.
C3_SecondRunReplacesRows ==
    (run = 2 /\ pc = "done") =>
        /\ \A k \in 1..Len(source) :
              /\ target[source[k].name].exists
              /\ target[source[k].name].rows = RowsOfOk(LogOf(source[k].name, "insert"))
              /\ target[source[k].name].cols = ColumnsOf(k)
        /\ (first.ok /\ AllOk(log)) =>
              /\ target = first.target
              /\ \A k \in 1..Len(source) :
                    target[source[k].name].rows = [j \in 1..source[k].nrows |-> j]

\* Two completed runs without a failing statement on a table of several
\* batches: the target holds each row once.
C3_Witness ==
    /\ run = 2
    /\ pc = "done"
    /\ first.ok
    /\ AllOk(log)
    /\ source[1].nrows = 3
    /\ batch_size = 2
    /\ target[source[1].name].rows = <<1, 2, 3>>
    /\ first.target[source[1].name].rows = <<1, 2, 3>>

====
